---- MODULE Spec2Model ----
(***************************************************************************)
(* Model of imkerutils.exquisite: the tile geometry (tile_mode.py), the    *)
(* disk-backed session (pipeline/session.py), the in-memory step           *)
(* (pipeline/step.py) and the atomic file writes (io/atomic_write.py).     *)
(*                                                                         *)
(* An image is a record [w, h, px].  w and h are its size in pixels.  px   *)
(* is its content along the growth axis, one entry per stripe of           *)
(* STRIPE_PX pixel lines: every crop and paste of the step pipeline spans  *)
(* the whole non-growth axis and starts and ends on a multiple of          *)
(* STRIPE_PX, so a stripe is moved as a whole.                             *)
(***************************************************************************)
EXTENDS Integers, Sequences, FiniteSets, TLC

\* ------------------------------------------------------------------ bounds
\* Step calls made on one session root, or by one in-memory caller.
MaxSteps == 2
\* Largest num_candidates a caller passes to execute_step_*.
MaxCandidates == 2
\* Finite seam scores are drawn from -MaxScoreMag..0.
MaxScoreMag == 1
\* Longest content (in bytes) handed to one atomic write.
MaxLen == 2

\* ------------------------------------------------- constants of tile_mode.py
TILE_PX == 1024
HALF_PX == 512
BAND_PX == 512
OVERLAP_PX == 256
ADVANCE_PX == 512
PATCH_PX == OVERLAP_PX + ADVANCE_PX
EXT_PX == ADVANCE_PX
\* Thickness of one stripe of px: all offsets of the pipeline are multiples.
STRIPE_PX == OVERLAP_PX

Modes == {"x_ltr", "x_rtl", "y_ttb", "y_btt"}
Horizontal(mode) == mode \in {"x_ltr", "x_rtl"}
Forward(mode) == mode \in {"x_ltr", "y_ttb"}

\* ------------------------------------------------------------------ images
Img(w, h, px) == [w |-> w, h |-> h, px |-> px]
Size(img) == <<img.w, img.h>>
GrowthLen(img, mode) == IF Horizontal(mode) THEN img.w ELSE img.h
OtherLen(img, mode) == IF Horizontal(mode) THEN img.h ELSE img.w
\* An image of `len` pixels along the growth axis and `other` across it.
ImgAlong(mode, len, other, px) ==
    IF Horizontal(mode) THEN Img(len, other, px) ELSE Img(other, len, px)
Stripes(len) == len \div STRIPE_PX

\* A sequence as an explicit tuple.
Seq_(f) == SubSeq(f, 1, Len(f))
Min(a, b) == IF a < b THEN a ELSE b
Max(a, b) == IF a > b THEN a ELSE b
\* Image.new("RGB", size): black.
Black(n) == Seq_([i \in 1..n |-> "black"])
\* Image.crop along the growth axis: pixel lines [a, b).
Crop(px, a, b) == SubSeq(px, Stripes(a) + 1, Stripes(b))
\* Image.paste of src into dst at pixel offset off (clipped to dst).
Paste(dst, src, off) ==
    LET k == Min(Stripes(off), Len(dst))
        m == Min(Len(src), Len(dst) - k)
    IN  SubSeq(dst, 1, k) \o SubSeq(src, 1, m) \o SubSeq(dst, k + m + 1, Len(dst))

\* An operation that raises returns Raised(kind) in place of its value.
Raised(kind) == [raised |-> kind]
IsRaised(v) == "raised" \in DOMAIN v

\* An extraction that checks the other axis only: a short canvas gives a
\* short band.
extract_band_any_length(canvas, mode) ==
    IF OtherLen(canvas, mode) # TILE_PX THEN Raised("ValueError")
    ELSE LET g == GrowthLen(canvas, mode)
         IN  IF g < BAND_PX THEN ImgAlong(mode, g, TILE_PX, canvas.px)
             ELSE ImgAlong(mode, BAND_PX, TILE_PX,
                     IF Forward(mode) THEN Crop(canvas.px, g - BAND_PX, g)
                     ELSE Crop(canvas.px, 0, BAND_PX))

\* extract_conditioning_band: the extremal BAND_PX strip at the frontier.
extract_conditioning_band(canvas, mode) ==
    IF OtherLen(canvas, mode) # TILE_PX THEN Raised("ValueError")
    ELSE IF GrowthLen(canvas, mode) < BAND_PX THEN Raised("ValueError")
    ELSE LET g == GrowthLen(canvas, mode)
         IN  ImgAlong(mode, BAND_PX, TILE_PX,
                 IF Forward(mode) THEN Crop(canvas.px, g - BAND_PX, g)
                 ELSE Crop(canvas.px, 0, BAND_PX))

\* split_tile: <<cond_half, new_half>>, split at HALF_PX.
split_tile(tile, mode) ==
    IF Size(tile) # <<TILE_PX, TILE_PX>> THEN Raised("ValueError")
    ELSE LET lo == ImgAlong(mode, HALF_PX, TILE_PX, Crop(tile.px, 0, HALF_PX))
             hi == ImgAlong(mode, TILE_PX - HALF_PX, TILE_PX,
                            Crop(tile.px, HALF_PX, TILE_PX))
         IN  IF Forward(mode) THEN <<lo, hi>> ELSE <<hi, lo>>

\* _tile_patch_for_overlap_glue: tile[HALF-OVERLAP, HALF+ADVANCE), any mode.
tile_patch_for_overlap_glue(tile, mode) ==
    IF Size(tile) # <<TILE_PX, TILE_PX>> THEN Raised("ValueError")
    ELSE IF HALF_PX + ADVANCE_PX # TILE_PX THEN Raised("AssertionError")
    ELSE ImgAlong(mode, PATCH_PX, TILE_PX,
                  Crop(tile.px, HALF_PX - OVERLAP_PX, HALF_PX + ADVANCE_PX))

\* A glue whose patch lands HALF_PX, not OVERLAP_PX, inside the old content.
glue_deep(canvas, tile, mode) ==
    IF OtherLen(canvas, mode) # TILE_PX THEN Raised("ValueError")
    ELSE LET patch == tile_patch_for_overlap_glue(tile, mode)
             g == GrowthLen(canvas, mode)
             out == Black(Stripes(g + ADVANCE_PX))
         IN  IF IsRaised(patch) THEN patch
             ELSE ImgAlong(mode, g + ADVANCE_PX, OtherLen(canvas, mode),
                     IF Forward(mode)
                     THEN Paste(Paste(out, canvas.px, 0), patch.px, g - HALF_PX)
                     ELSE Paste(Paste(out, canvas.px, ADVANCE_PX), patch.px, OVERLAP_PX))

\* glue: a new canvas, ADVANCE_PX longer, with the old canvas and the patch.
glue(canvas, tile, mode) ==
    IF OtherLen(canvas, mode) # TILE_PX THEN Raised("ValueError")
    ELSE LET patch == tile_patch_for_overlap_glue(tile, mode)
             g == GrowthLen(canvas, mode)
             out == Black(Stripes(g + ADVANCE_PX))
         IN  IF IsRaised(patch) THEN patch
             ELSE ImgAlong(mode, g + ADVANCE_PX, OtherLen(canvas, mode),
                     IF Forward(mode)
                     THEN Paste(Paste(out, canvas.px, 0), patch.px, g - OVERLAP_PX)
                     ELSE Paste(Paste(out, canvas.px, ADVANCE_PX), patch.px, 0))

\* expected_next_canvas_size
expected_next_canvas_size(canvas, mode) ==
    IF Horizontal(mode) THEN <<canvas.w + ADVANCE_PX, canvas.h>>
    ELSE <<canvas.w, canvas.h + ADVANCE_PX>>


\* -------------------------------------------- scoring and feathered glue
\* A score is a float: float("-inf"), or a finite value <= 0.
NegInf == [fin |-> FALSE, v |-> 0]
Fin(v) == [fin |-> TRUE, v |-> v]
ScoreVals == {Fin(0 - m) : m \in 0..MaxScoreMag}
ScoreGT(a, b) == a.fin /\ (~b.fin \/ a.v > b.v)

\* max(range(len(scores)), key=lambda i: scores[i]): the first index that no
\* other index beats (indices are 1-based here, 0-based in the source).
RECURSIVE MaxFrom(_, _, _)
MaxFrom(scores, i, best) ==
    IF i > Len(scores) THEN best
    ELSE MaxFrom(scores, i + 1, IF ScoreGT(scores[i], scores[best]) THEN i ELSE best)

\* A selection that lets a later candidate of equal score replace the best.
BestIndexLast(scores) ==
    CHOOSE i \in 1..Len(scores) :
        /\ \A j \in 1..Len(scores) : ~ScoreGT(scores[j], scores[i])
        /\ \A j \in (i + 1)..Len(scores) : ScoreGT(scores[i], scores[j])

BestIndex(scores) == MaxFrom(scores, 2, 1)

\* Image.composite(tile_ov, canvas_ov, mask) on one overlap stripe: the ramp
\* a = round(255 * x / max(1, feather_px - 1)) is all 0 (canvas) for feather_px = 1.
Composite(tile_ov, canvas_ov, feather_px) ==
    Seq_([i \in 1..Len(canvas_ov) |->
            IF tile_ov[i] = canvas_ov[i] \/ feather_px = 1 THEN canvas_ov[i]
            ELSE "blend"])

\* _overlap_crops_for_blend: <<canvas overlap strip, tile overlap strip>>.
overlap_crops_for_blend(canvas, tile, mode) ==
    LET g == GrowthLen(canvas, mode)
    IN  IF Forward(mode)
        THEN <<Crop(canvas.px, g - OVERLAP_PX, g), Crop(tile.px, HALF_PX - OVERLAP_PX, HALF_PX)>>
        ELSE <<Crop(canvas.px, 0, OVERLAP_PX), Crop(tile.px, HALF_PX, HALF_PX + OVERLAP_PX)>>

\* _glue_with_feather: blend inside the overlap strip of the tile, then glue.
\* Cropping and pasting never raise on a tile of another size; glue does.
glue_with_feather(canvas, tile, mode, feather_px) ==
    IF feather_px <= 0 THEN glue(canvas, tile, mode)
    ELSE IF Size(tile) # <<TILE_PX, TILE_PX>> \/ OtherLen(canvas, mode) # TILE_PX
         THEN glue(canvas, tile, mode)
    ELSE LET f == Max(1, Min(feather_px, OVERLAP_PX))
             ov == overlap_crops_for_blend(canvas, tile, mode)
             blended_ov == Composite(ov[2], ov[1], f)
             tile2 == [tile EXCEPT !.px =
                          Paste(tile.px, blended_ov,
                                IF Forward(mode) THEN HALF_PX - OVERLAP_PX ELSE HALF_PX)]
         IN  glue(canvas, tile2, mode)

\* ------------------------------------------------------------- generators
\* _fill_deterministic: the synthetic content of a generated tile.
Fill == <<"new1", "new2", "new3", "new4">>
\* A generator that pastes the band at the origin in every mode.
generate_tile_at_origin(band, mode) ==
    Img(TILE_PX, TILE_PX, Paste(Fill, band.px, 0))
\* mock_gpt_client.generate_tile: the fill with the band pasted over the
\* conditioning half.
generate_tile(band, mode) ==
    Img(TILE_PX, TILE_PX, Paste(Fill, band.px, IF Forward(mode) THEN 0 ELSE EXT_PX))
\* What one call of a TileGeneratorClient may do: raise a GeneratorError, raise
\* something else, return a tile of the wrong size (WrongSizeClient), return a
\* tile that follows the band convention, or one with its own conditioning half.
\* `score` is the seam score the pixels of a returned tile would get.
GeneratorErrors == {"GeneratorTransientError", "GeneratorPermanentError",
                    "GeneratorSafetyRefusal", "GeneratorBillingLimitError"}
OtherErrors == {"RuntimeError"}
FailureOutcomes ==
    {[kind |-> k, score |-> Fin(0)] : k \in GeneratorErrors \cup OtherErrors}
Outcomes ==
    FailureOutcomes \cup {[kind |-> "bad_size", score |-> Fin(0)]}
    \cup {[kind |-> k, score |-> s] : k \in {"tile_band", "tile_own"}, s \in ScoreVals}
MockOutcomes == {o \in Outcomes : o.kind = "tile_band"}
\* The session treats every GeneratorError alike, and every other exception
\* alike (541-550): one of each stands for its class there.
SessionOutcomes ==
    {o \in Outcomes : o.kind \in GeneratorErrors => o.kind = "GeneratorTransientError"}
BlackTile == Img(TILE_PX, TILE_PX, Black(Stripes(TILE_PX)))
WrongSizeTile == Img(TILE_PX, TILE_PX - 1, Fill)
ClientTile(o, band, mode) ==
    CASE o.kind = "tile_band" -> generate_tile(band, mode)
      [] o.kind = "tile_own" -> Img(TILE_PX, TILE_PX, Fill)
      [] o.kind = "bad_size" -> WrongSizeTile
      [] OTHER -> Raised(o.kind)
GeneratorReturned(o) == o.kind \in {"bad_size", "tile_band", "tile_own"}

\* ----------------------------------------------------------- SessionState
\* The dataclass defaults of SessionState that create() does not override.
DEFAULT_OVERLAP_PX == 256
DEFAULT_ADVANCE_PX == 256

\* The resolved path of the session root that create makes.
SessionRoot == "root"

\* SessionState(...) as ExquisiteSession.create builds it.
NewSessionState(mode, w, h) ==
    [session_root |-> SessionRoot, mode |-> mode, tile_px |-> TILE_PX, band_px |-> BAND_PX,
     overlap_px |-> DEFAULT_OVERLAP_PX, advance_px |-> DEFAULT_ADVANCE_PX,
     ext_px |-> EXT_PX,
     canvas_width_px_expected |-> w, canvas_height_px_expected |-> h,
     step_index_current |-> 0]

\* SessionState.to_dict, then json.dumps: every field, by name.
to_dict(st) ==
    [session_root |-> st.session_root, mode |-> st.mode, tile_px |-> st.tile_px, band_px |-> st.band_px,
     overlap_px |-> st.overlap_px, advance_px |-> st.advance_px,
     ext_px |-> st.ext_px,
     canvas_width_px_expected |-> st.canvas_width_px_expected,
     canvas_height_px_expected |-> st.canvas_height_px_expected,
     step_index_current |-> st.step_index_current]

\* A from_dict that starts every handle at step index 0.
from_dict_fresh(d) ==
    [session_root |-> d.session_root, mode |-> d.mode, tile_px |-> d.tile_px, band_px |-> d.band_px,
     overlap_px |-> d.overlap_px, advance_px |-> d.advance_px,
     ext_px |-> IF d.ext_px # d.advance_px THEN d.advance_px ELSE d.ext_px,
     canvas_width_px_expected |-> d.canvas_width_px_expected,
     canvas_height_px_expected |-> d.canvas_height_px_expected,
     step_index_current |-> 0]

\* SessionState.from_dict: ext_px is made to mirror advance_px.
from_dict(d) ==
    [session_root |-> d.session_root, mode |-> d.mode, tile_px |-> d.tile_px, band_px |-> d.band_px,
     overlap_px |-> d.overlap_px, advance_px |-> d.advance_px,
     ext_px |-> IF d.ext_px # d.advance_px THEN d.advance_px ELSE d.ext_px,
     canvas_width_px_expected |-> d.canvas_width_px_expected,
     canvas_height_px_expected |-> d.canvas_height_px_expected,
     step_index_current |-> d.step_index_current]

\* ------------------------------------------------------------------ state
NoFile == [absent |-> TRUE]
NoSession == [none |-> TRUE]
NoResult == [status |-> "none"]
NoLocals == [fn |-> "none"]
NoCand == [n |-> 0]
NoWrite == [pc |-> "idle"]
NoHandle == [pc |-> "none"]
NoFx == [op |-> "none"]

VARIABLES
    pc,          \* "start", "creating", "idle", "writing", "crashed", "failed", "mem"
    canvasFile,  \* session_root/canvas_latest.png: an image, or NoFile
    stateFile,   \* session_root/session_state.json: a dict, or NoFile
    stepDirs,    \* the step indices N whose directory steps/NNNN exists
    stepFiles,   \* stepFiles[N]: the files of steps/NNNN, as <<name, k>>
    sess,        \* self.state of the session handle, or NoSession
    loc,         \* canvas, step_index_next, canvas_next of the running (or last) step call
    cand,        \* the candidate loop's outcome, until the next durable write or call
    todo,        \* the durable writes the running operation has still to do
    result,      \* what the last call returned or raised
    mem,         \* an in-memory caller's canvas and mode, and its last call's tile
    hist,        \* history: step calls begun and committed, whether a handle was reopened
    aw,          \* one atomic write, step by step (atomic_write.py)
    h2,          \* a second handle on the same session root, while it is not running
    fx           \* one application of a geometry function: its arguments and value

vars == <<pc, canvasFile, stateFile, stepDirs, stepFiles, sess, loc, cand, todo, result, mem, hist, aw, h2, fx>>
diskVars == <<canvasFile, stateFile, stepDirs, stepFiles>>

StepIdx == 0..MaxSteps
File(name) == <<name, 0>>
Marker == File("committed.ok")
Committed(N) == Marker \in stepFiles[N]

\* ----------------------------------------------------------- durable writes
\* One durable write of the session: atomic_write_with / atomic_write_text on
\* the canvas pointer, the session metadata, or a file of a step directory.
\* Each is a single step here; aw (below) models the inside of one write.
CanvasWrite(img) == [kind |-> "canvas", img |-> img]
StateWrite(st) == [kind |-> "state", st |-> st]
StepWrite(N, file) == [kind |-> "step", N |-> N, file |-> file]

\* The files of steps/NNNN after `file` is written: a name holds one content
\* (k is the candidate's index, or the num_candidates the score report records).
PutFile(files, file) ==
    {f \in files : f[1] # file[1] \/ (f[1] = "candidates/tile_full.png" /\ f[2] # file[2])}
    \cup {file}

\* --------------------------------------------------------------- create
\* Initial canvases a caller may hand to create: content distinct in every stripe.
Labels == <<"c1", "c2", "c3", "c4">>
InitImages ==
    {Img(w, h, Labels) : w \in {TILE_PX, TILE_PX - 1}, h \in {TILE_PX, TILE_PX - 1}}

\* A create that checks the width only.
CreateAcceptsWidthOnly(img) == img.w = TILE_PX

\* create's check of the initial canvas.
CreateAccepts(img) == Size(img) = <<TILE_PX, TILE_PX>>

\* A create that writes no commit marker for step 0.
CreatePlanNoMarker(img, st) ==
    <<CanvasWrite(img), StepWrite(0, File("canvas_initial.png")), StateWrite(st)>>

\* create's durable writes, in program order.
CreatePlan(img, st) ==
    <<CanvasWrite(img), StepWrite(0, File("canvas_initial.png")),
      StepWrite(0, Marker), StateWrite(st)>>

RaisedResult(error) == [status |-> "raised", error |-> error]

Create(mode, img) ==
    /\ pc = "start"
    /\ IF CreateAccepts(img)
       THEN /\ pc' = "creating"
            /\ sess' = NewSessionState(mode, img.w, img.h)
            /\ todo' = CreatePlan(img, NewSessionState(mode, img.w, img.h))
            /\ result' = NoResult
       ELSE /\ pc' = "failed"
            /\ result' = RaisedResult("ValueError")
            /\ UNCHANGED <<sess, todo>>
    /\ UNCHANGED <<diskVars, loc, cand, mem, hist, aw, h2, fx>>

\* ------------------------------------------------------ execute_step_*
\* One candidate of the loop of execute_step_real; execute_step_mock is the
\* same with the mock generator and no post-enforcement.
Candidate(o, band, mode, enforce, post_enforce) ==
    IF ~GeneratorReturned(o) THEN [tile |-> BlackTile, score |-> NegInf]
    ELSE LET t0 == ClientTile(o, band, mode)
         IN  IF Size(t0) # <<TILE_PX, TILE_PX>> THEN [tile |-> t0, score |-> NegInf]
             ELSE LET t1 == IF post_enforce
                            THEN [t0 EXCEPT !.px = Paste(t0.px, band.px,
                                                   IF Forward(mode) THEN 0 ELSE HALF_PX)]
                            ELSE t0
                      cond_half == split_tile(t1, mode)[1]
                  IN  IF enforce /\ cond_half.px # band.px
                      THEN [tile |-> t1, score |-> NegInf]
                      ELSE [tile |-> t1, score |-> o.score]

\* A step that writes its commit marker before the canvas pointer and the metadata.
StepPlanMarkerEarly(fn, N, n, canvas_next, st) ==
    <<StepWrite(N, File("prompt.txt")), StepWrite(N, Marker),
      StepWrite(N, File("conditioning_band.png")),
      StepWrite(N, File("canvas_before.png")), StepWrite(N, File("canvas_after.png"))>>
    \o [i \in 1..n |-> StepWrite(N, <<"candidates/tile_full.png", i - 1>>)]
    \o <<StepWrite(N, <<"candidate_scores.json", n>>),
         CanvasWrite(canvas_next), StateWrite(st)>>

\* The durable writes of a step that commits, in program order: the
\* artifacts, the canvas pointer, the metadata, the commit marker.
StepPlan(fn, N, n, canvas_next, st) ==
    <<StepWrite(N, File("prompt.txt")), StepWrite(N, File("conditioning_band.png")),
      StepWrite(N, File("canvas_before.png")), StepWrite(N, File("canvas_after.png"))>>
    \o [i \in 1..n |-> StepWrite(N, <<"candidates/tile_full.png", i - 1>>)]
    \o <<StepWrite(N, <<"candidate_scores.json", n>>), StepWrite(N, File("tile_patch.png"))>>
    \o (IF fn = "real" THEN <<StepWrite(N, File("cond_half.png"))>> ELSE <<>>)
    \o <<StepWrite(N, File("tile_full.png")), StepWrite(N, File("new_half.png")),
         CanvasWrite(canvas_next), StateWrite(st), StepWrite(N, Marker)>>

\* DiskStepResult (session_id and step_dir follow from step_index).
RejectedResult(N, canvas) ==
    [status |-> "rejected", step_index |-> N,
     canvas_before_size |-> Size(canvas), canvas_after_size |-> Size(canvas)]
\* A result that reports the size before the step as the size after it.
CommittedResultStale(l) ==
    [status |-> "committed", step_index |-> l.step_index_next,
     canvas_before_size |-> Size(l.canvas), canvas_after_size |-> Size(l.canvas)]
CommittedResult(l) ==
    [status |-> "committed", step_index |-> l.step_index_next,
     canvas_before_size |-> Size(l.canvas), canvas_after_size |-> Size(l.canvas_next)]

Locals(fn, canvas, N, canvas_next) ==
    [fn |-> fn, canvas |-> canvas, step_index_next |-> N, canvas_next |-> canvas_next]
Cand(enforce, scores, best_i, tile_best) ==
    [n |-> Len(scores), enforce |-> enforce, scores |-> scores, best_i |-> best_i,
     tile_best |-> tile_best]

\* A step call that returns (rejected) or raises before any durable write.
StepReturns(fn, canvas, N, res) ==
    /\ result' = res
    /\ loc' = Locals(fn, canvas, N, NoFile)
    /\ cand' = NoCand
    /\ UNCHANGED <<pc, todo>>

\* execute_step_mock / execute_step_real up to the first durable write: the
\* canvas is read, the step directory made, the candidates generated and scored,
\* the best glued.  It returns rejected, raises, or goes on to write.
ExecuteStep(fn, num_candidates, enforce, post_enforce, feather_px, outs) ==
    /\ pc = "idle"
    /\ hist.attempts < MaxSteps
    /\ hist' = [hist EXCEPT !.attempts = @ + 1]
    /\ stepDirs' = stepDirs \cup {sess.step_index_current + 1}
    /\ \E canvas \in {canvasFile}, mode \in {sess.mode}, N \in {sess.step_index_current + 1},
          n \in {Max(1, num_candidates)} :
       IF OtherLen(canvas, mode) # TILE_PX
       THEN StepReturns(fn, canvas, N, RejectedResult(N, canvas))
       ELSE
       \E band \in {extract_conditioning_band(canvas, mode)} :
       IF IsRaised(band)
       THEN StepReturns(fn, canvas, N, RaisedResult(band.raised))
       ELSE
       \E cands \in {Seq_([k \in 1..n |->
                        Candidate(outs[k], band, mode, enforce, post_enforce)])} :
       \E scores \in {Seq_([k \in 1..n |-> cands[k].score])} :
       IF Len(scores) = 0
       THEN StepReturns(fn, canvas, N, RejectedResult(N, canvas))
       ELSE
       \E best_i \in {BestIndex(scores)} :
       \E tile_best \in {cands[best_i].tile} :
       \E canvas_next \in {glue_with_feather(canvas, tile_best, mode, feather_px)} :
       IF IsRaised(canvas_next)
       THEN /\ result' = RaisedResult(canvas_next.raised)
            /\ loc' = Locals(fn, canvas, N, NoFile)
            /\ cand' = Cand(enforce, scores, best_i, tile_best)
            /\ UNCHANGED <<pc, todo>>
       ELSE IF Size(canvas_next) # expected_next_canvas_size(canvas, mode)
       THEN StepReturns(fn, canvas, N, RejectedResult(N, canvas))
       ELSE /\ pc' = "writing"
            /\ todo' = StepPlan(fn, N, n, canvas_next,
                          [sess EXCEPT !.canvas_width_px_expected = canvas_next.w,
                                       !.canvas_height_px_expected = canvas_next.h,
                                       !.step_index_current = N])
            /\ loc' = Locals(fn, canvas, N, canvas_next)
            /\ cand' = Cand(enforce, scores, best_i, tile_best)
            /\ result' = NoResult
    /\ UNCHANGED <<canvasFile, stateFile, stepFiles, sess, mem, aw, h2, fx>>

\* The feather_px a caller passes: none, or the whole overlap.
FeatherVals == {0, OVERLAP_PX}

ExecuteStepReal ==
    \E num_candidates \in 0..MaxCandidates, enforce \in BOOLEAN, post_enforce \in BOOLEAN,
       feather_px \in FeatherVals :
        \E outs \in [1..Max(1, num_candidates) -> SessionOutcomes] :
            ExecuteStep("real", num_candidates, enforce, post_enforce, feather_px, outs)

ExecuteStepMock ==
    \E num_candidates \in 0..MaxCandidates, enforce \in BOOLEAN, feather_px \in FeatherVals :
        \E outs \in [1..Max(1, num_candidates) -> MockOutcomes] :
            ExecuteStep("mock", num_candidates, enforce, FALSE, feather_px, outs)

\* execute_step_real with a client whose every call fails.
ExecuteStepFailing ==
    \E num_candidates \in 0..MaxCandidates, enforce \in BOOLEAN, post_enforce \in BOOLEAN,
       feather_px \in FeatherVals :
        \E outs \in [1..Max(1, num_candidates) -> FailureOutcomes] :
            ExecuteStep("real", num_candidates, enforce, post_enforce, feather_px, outs)

\* The next durable write of create or of a committing step.  The metadata
\* write of a step comes with the update of self.state before it; after the
\* last write the call returns.
DurableWrite ==
    /\ pc \in {"creating", "writing"}
    /\ todo # <<>>
    /\ LET op == Head(todo)
       IN  /\ canvasFile' = IF op.kind = "canvas" THEN op.img ELSE canvasFile
           /\ stateFile' = IF op.kind = "state" THEN to_dict(op.st) ELSE stateFile
           /\ sess' = IF op.kind = "state" THEN op.st ELSE sess
           /\ stepFiles' = IF op.kind = "step"
                           THEN [stepFiles EXCEPT ![op.N] = PutFile(@, op.file)]
                           ELSE stepFiles
           /\ stepDirs' = IF op.kind = "step" THEN stepDirs \cup {op.N} ELSE stepDirs
    /\ todo' = Tail(todo)
    /\ cand' = NoCand
    /\ IF Tail(todo) = <<>>
       THEN /\ pc' = "idle"
            /\ result' = IF pc = "writing" THEN CommittedResult(loc) ELSE NoResult
            /\ hist' = IF pc = "writing" THEN [hist EXCEPT !.committed = @ + 1] ELSE hist
       ELSE UNCHANGED <<pc, result, hist>>
    /\ UNCHANGED <<loc, mem, aw, h2, fx>>

\* The next durable write fails (OSError): the call raises.  A step that fails
\* at its metadata write has already updated self.state.
WriteFails ==
    /\ pc \in {"creating", "writing"}
    /\ todo # <<>>
    /\ sess' = IF pc = "creating" THEN NoSession
               ELSE IF Head(todo).kind = "state" THEN Head(todo).st ELSE sess
    /\ pc' = IF pc = "creating" THEN "failed" ELSE "idle"
    /\ todo' = <<>>
    /\ cand' = NoCand
    /\ result' = RaisedResult("OSError")
    /\ UNCHANGED <<diskVars, loc, mem, hist, aw, h2, fx>>

\* The process dies between two durable writes: the files stay, the handle
\* and the locals are gone.
Crash ==
    /\ pc \in {"creating", "writing"}
    /\ pc' = "crashed"
    /\ sess' = NoSession
    /\ loc' = NoLocals
    /\ cand' = NoCand
    /\ todo' = <<>>
    /\ result' = NoResult
    /\ UNCHANGED <<diskVars, mem, hist, aw, h2, fx>>

\* The paths a caller may give to open: the session root, a copy of the
\* session directory at another path, and a directory that holds no session.
OpenPaths == {SessionRoot, "copy", "empty"}
\* session_root / "session_state.json" as open finds it.
StateFileAt(session_root) == IF session_root = "empty" THEN NoFile ELSE stateFile

\* An open that does not compare the stored root with the given path.
OpenAtUnchecked(session_root) ==
    /\ pc \in {"idle", "crashed", "failed"}
    /\ IF StateFileAt(session_root) = NoFile
       THEN /\ result' = RaisedResult("FileNotFoundError")
            /\ UNCHANGED <<pc, sess, loc, hist>>
       ELSE /\ pc' = "idle"
            /\ sess' = from_dict(StateFileAt(session_root))
            /\ loc' = NoLocals
            /\ result' = NoResult
            /\ hist' = [hist EXCEPT !.reopened = @ \/ hist.committed > 0]
    /\ UNCHANGED <<diskVars, cand, todo, mem, aw, h2, fx>>

\* ExquisiteSession.open(session_root): a new handle from the metadata.
OpenAt(session_root) ==
    /\ pc \in {"idle", "crashed", "failed"}
    /\ IF StateFileAt(session_root) = NoFile
       THEN /\ result' = RaisedResult("FileNotFoundError")
            /\ UNCHANGED <<pc, sess, loc, hist>>
       ELSE IF from_dict(StateFileAt(session_root)).session_root # session_root
       THEN /\ result' = RaisedResult("ValueError")
            /\ UNCHANGED <<pc, sess, loc, hist>>
       ELSE /\ pc' = "idle"
            /\ sess' = from_dict(StateFileAt(session_root))
            /\ loc' = NoLocals
            /\ result' = NoResult
            /\ hist' = [hist EXCEPT !.reopened = @ \/ hist.committed > 0]
    /\ UNCHANGED <<diskVars, cand, todo, mem, aw, h2, fx>>

\* open on the session root itself.
Open == OpenAt(SessionRoot)
\* open on any path.
OpenAny == \E session_root \in OpenPaths : OpenAt(session_root)

\* ------------------------------------------------- execute_step_in_memory
\* StepResult; rejection_reason is a code and the exception's type name.
NoReason == [code |-> "None", type |-> ""]
Reason(code, type) == [code |-> code, type |-> type]
StepResult(status, mode, step_index, before, after, reason) ==
    [status |-> status, mode |-> mode, step_index |-> step_index,
     canvas_before_size |-> before, canvas_after_size |-> after,
     rejection_reason |-> reason]

KEEP_PX == HALF_PX - OVERLAP_PX

\* _cond_region_for_identity: the box, along the growth axis, inside the
\* conditioning half (and inside the band) that must be identical.
cond_region_for_identity(mode) ==
    IF Forward(mode) THEN <<0, KEEP_PX>> ELSE <<OVERLAP_PX, HALF_PX>>

\* _post_enforce_keep_into_tile: paste only the far keep region of the band.
post_enforce_keep_into_tile(tile, band, mode) ==
    IF Forward(mode)
    THEN [tile EXCEPT !.px = Paste(tile.px, Crop(band.px, 0, KEEP_PX), 0)]
    ELSE [tile EXCEPT !.px = Paste(tile.px, Crop(band.px, BAND_PX - KEEP_PX, BAND_PX),
                                   TILE_PX - KEEP_PX)]

\* A rejection that reports the size the canvas would have grown to.
RejectInMemoryGrown(canvas, mode, step_index, reason) ==
    [canvas |-> canvas, tile |-> NoFile,
     result |-> StepResult("rejected", mode, step_index, Size(canvas),
                           expected_next_canvas_size(canvas, mode), reason)]

\* `return canvas, StepResult("rejected", mode, step_index, (w, h), (w, h), reason)`
RejectInMemory(canvas, mode, step_index, reason) ==
    [canvas |-> canvas, tile |-> NoFile,
     result |-> StepResult("rejected", mode, step_index, Size(canvas), Size(canvas), reason)]

\* execute_step_in_memory with a client whose call does `o`: the returned
\* (canvas, StepResult), or the exception that escapes; `tile` is the tile
\* that was glued, if one was.
execute_step_in_memory(canvas, mode, step_index, o, enforce, post_enforce) ==
    IF OtherLen(canvas, mode) # TILE_PX
    THEN RejectInMemory(canvas, mode, step_index, Reason("non_growing_axis_not_1024", ""))
    ELSE LET band == extract_conditioning_band(canvas, mode)
             tile0 == ClientTile(o, band, mode)
             tile == IF post_enforce THEN post_enforce_keep_into_tile(tile0, band, mode)
                     ELSE tile0
             cond_half == split_tile(tile, mode)[1]
             box == cond_region_for_identity(mode)
             canvas_next == glue(canvas, tile, mode)
         IN  IF IsRaised(band) THEN band
             ELSE IF o.kind \in GeneratorErrors
             THEN RejectInMemory(canvas, mode, step_index, Reason("generator_error", o.kind))
             ELSE IF ~GeneratorReturned(o)
             THEN RejectInMemory(canvas, mode, step_index,
                                 Reason("generator_error:unknown", o.kind))
             ELSE IF Size(tile0) # <<TILE_PX, TILE_PX>>
             THEN RejectInMemory(canvas, mode, step_index, Reason("tile_dim_mismatch", ""))
             ELSE IF enforce /\ Crop(cond_half.px, box[1], box[2]) # Crop(band.px, box[1], box[2])
             THEN RejectInMemory(canvas, mode, step_index,
                                 Reason("band_identity_violation", ""))
             ELSE IF Size(canvas_next) # expected_next_canvas_size(canvas, mode)
             THEN RejectInMemory(canvas, mode, step_index,
                                 Reason("canvas_dim_invariant_violation", ""))
             ELSE [canvas |-> canvas_next, tile |-> tile,
                   result |-> StepResult("committed", mode, step_index, Size(canvas),
                                         Size(canvas_next), NoReason)]

\* The canvases an in-memory caller may start from: shorter than the band or a
\* tile long, the other axis right or not.
MemCanvases(mode) ==
    {ImgAlong(mode, g, other, SubSeq(Labels, 1, Stripes(g))) :
        g \in {OVERLAP_PX, TILE_PX}, other \in {TILE_PX, TILE_PX - 1}}

\* A caller of the in-memory step takes a canvas and a mode.
MemStart(mode, canvas) ==
    /\ pc = "start"
    /\ pc' = "mem"
    /\ mem' = [canvas |-> canvas, mode |-> mode, calls |-> 0, tile |-> NoFile,
               enforce |-> FALSE]
    /\ UNCHANGED <<diskVars, sess, loc, cand, todo, result, hist, aw, h2, fx>>

\* One call of execute_step_in_memory; the caller keeps the returned canvas.
InMemoryStep(o, enforce, post_enforce) ==
    /\ pc = "mem"
    /\ mem.calls < MaxSteps
    /\ \E r \in {execute_step_in_memory(mem.canvas, mem.mode, mem.calls, o,
                                        enforce, post_enforce)} :
          IF IsRaised(r)
          THEN /\ result' = RaisedResult(r.raised)
               /\ loc' = Locals("in_memory", mem.canvas, mem.calls, NoFile)
               /\ mem' = [mem EXCEPT !.calls = @ + 1, !.tile = NoFile,
                                     !.enforce = enforce]
          ELSE /\ result' = r.result
               /\ loc' = Locals("in_memory", mem.canvas, mem.calls, r.canvas)
               /\ mem' = [mem EXCEPT !.canvas = r.canvas, !.calls = @ + 1,
                                     !.tile = r.tile, !.enforce = enforce]
    /\ UNCHANGED <<pc, diskVars, sess, cand, todo, hist, aw, h2, fx>>

InMemoryStepAny ==
    \E o \in Outcomes, enforce \in BOOLEAN, post_enforce \in BOOLEAN :
        InMemoryStep(o, enforce, post_enforce)

\* execute_step_in_memory with a client whose every call fails.
InMemoryStepFailing ==
    \E o \in FailureOutcomes, enforce \in BOOLEAN, post_enforce \in BOOLEAN :
        InMemoryStep(o, enforce, post_enforce)

\* ---------------------------------------------------------- atomic_write
\* One destination path and one atomic write to it, step by step.  A file is
\* absent or holds a byte string; the new content is written in chunks of one
\* byte, so that a kill may fall at any point of the data.
Bytes == {0, 1}
Contents == UNION {[1..k -> Bytes] : k \in 1..MaxLen}
FileOf(data) == [exists |-> TRUE, data |-> data]
Absent == [exists |-> FALSE, data |-> <<>>]
DstFiles == {Absent} \cup {FileOf(d) : d \in Contents}

sessionVars == <<pc, canvasFile, stateFile, stepDirs, stepFiles, sess, loc, cand, todo,
                 result, mem, hist, h2, fx>>

sessionVarsNoFx == <<pc, canvasFile, stateFile, stepDirs, stepFiles, sess, loc, cand,
                     todo, result, mem, hist, h2>>

AwState(p, fn, dst, tmp, old, data, renamed) ==
    [pc |-> p, fn |-> fn, dst |-> dst, tmp |-> tmp, old |-> old, data |-> data,
     renamed |-> renamed]

\* NamedTemporaryFile(dir=dst.parent, delete=False): the temp file exists, empty.
AwBegin(fn, data) ==
    /\ aw.pc \in {"ready", "done", "raised", "crashed"}
    /\ aw' = AwState("open", fn, aw.dst, FileOf(<<>>), aw.dst, data, FALSE)
    /\ UNCHANGED sessionVars

\* A write that puts the next byte straight into the destination.
WriteChunkInPlace(a) ==
    [a EXCEPT !.tmp = FileOf(Append(a.tmp.data, a.data[Len(a.tmp.data) + 1])),
              !.dst = FileOf(Append(a.tmp.data, a.data[Len(a.tmp.data) + 1]))]

\* f.write(data) / writer(tmp_path): where the next byte of the new content goes.
WriteChunk(a) ==
    [a EXCEPT !.tmp = FileOf(Append(a.tmp.data, a.data[Len(a.tmp.data) + 1]))]

AwWrite ==
    /\ aw.pc = "open"
    /\ Len(aw.tmp.data) < Len(aw.data)
    /\ aw' = WriteChunk(aw)
    /\ UNCHANGED sessionVars

\* f.flush(); os.fsync(...): after the whole content is in the temp file.  In
\* atomic_write_with an OSError of the fsync is swallowed.
AwFsync ==
    /\ aw.pc = "open"
    /\ aw.tmp.data = aw.data
    /\ aw' = [aw EXCEPT !.pc = "synced"]
    /\ UNCHANGED sessionVars

\* os.replace(tmp_path, dst): the rename.
AwReplace ==
    /\ aw.pc = "synced"
    /\ aw' = [aw EXCEPT !.pc = "replaced", !.dst = aw.tmp, !.tmp = Absent,
                        !.renamed = TRUE]
    /\ UNCHANGED sessionVars

\* _fsync_dir (best effort), and the call returns.
AwReturn ==
    /\ aw.pc = "replaced"
    /\ aw' = [aw EXCEPT !.pc = "done"]
    /\ UNCHANGED sessionVars

\* The write, the fsync or the rename raises: atomic_write_with unlinks the
\* temp file on its way out, atomic_write_bytes leaves it.
AwRaise ==
    /\ aw.pc \in {"open", "synced"}
    /\ aw.pc = "open" /\ aw.tmp.data = aw.data => aw.fn = "bytes"
    /\ aw' = [aw EXCEPT !.pc = "raised",
                        !.tmp = IF aw.fn = "with" THEN Absent ELSE aw.tmp]
    /\ UNCHANGED sessionVars

\* The process is killed inside the write: the files stay as they are.
AwCrash ==
    /\ aw.pc \in {"open", "synced", "replaced"}
    /\ aw' = [aw EXCEPT !.pc = "crashed"]
    /\ UNCHANGED sessionVars

\* ------------------------------------------------------- a second handle
\* What a handle and the step call running on it hold.
Handle(p, st, l, c, t, r) ==
    [pc |-> p, sess |-> st, loc |-> l, cand |-> c, todo |-> t, result |-> r]

\* ExquisiteSession.open on the root of a session whose first handle is live,
\* idle or inside a step: open reads the metadata and takes no lock.
OpenOther ==
    /\ pc \in {"idle", "writing"}
    /\ h2 = NoHandle
    /\ stateFile # NoFile
    /\ h2' = Handle("idle", from_dict(stateFile), NoLocals, NoCand, <<>>, NoResult)
    /\ UNCHANGED <<pc, diskVars, sess, loc, cand, todo, result, mem, hist, aw, fx>>

\* The other handle's process runs next: the two handles work on the same
\* files, each with its own self.state and its own step call.
Switch ==
    /\ pc \in {"idle", "writing"}
    /\ h2 # NoHandle
    /\ h2' = Handle(pc, sess, loc, cand, todo, result)
    /\ pc' = h2.pc
    /\ sess' = h2.sess
    /\ loc' = h2.loc
    /\ cand' = h2.cand
    /\ todo' = h2.todo
    /\ result' = h2.result
    /\ UNCHANGED <<diskVars, mem, hist, aw, fx>>

\* The other handle is used next, between two calls: no call is running on
\* either handle.
SwitchIdle ==
    /\ pc = "idle"
    /\ h2 # NoHandle
    /\ h2.pc = "idle"
    /\ Switch

\* ------------------------------------------------ glue, applied to inputs
\* Canvases of one and of two tiles' growth, every stripe with its own content.
CanvasLabels == <<"c1", "c2", "c3", "c4", "c5", "c6">>
GlueCanvases(mode) ==
    {ImgAlong(mode, g, TILE_PX, SubSeq(CanvasLabels, 1, Stripes(g))) :
        g \in {TILE_PX, TILE_PX + ADVANCE_PX}}

\* Tiles: every stripe with its own content, the mock generator's tile for
\* the canvas's band, the generator's own fill, and the black placeholder.
TileLabels == <<"t1", "t2", "t3", "t4">>
GlueTiles(canvas, mode) ==
    {Img(TILE_PX, TILE_PX, TileLabels),
     generate_tile(extract_conditioning_band(canvas, mode), mode),
     Img(TILE_PX, TILE_PX, Fill),
     BlackTile}

\* feather_px: negative, none, the least, the whole overlap, more than it.
GlueFeathers == {0 - 1, 0, 1, OVERLAP_PX, OVERLAP_PX + 1}

GlueArgs ==
    UNION {UNION {{[op |-> "args", mode |-> mode, canvas |-> canvas, tile |-> tile,
                    feather_px |-> feather_px, out |-> NoFile] :
                      tile \in GlueTiles(canvas, mode), feather_px \in GlueFeathers} :
                  canvas \in GlueCanvases(mode)} :
           mode \in Modes}

\* glue(canvas, tile, mode)
ApplyGlue ==
    /\ fx.op = "args"
    /\ OtherLen(fx.canvas, fx.mode) = TILE_PX
    /\ fx' = [fx EXCEPT !.op = "glue", !.out = glue(fx.canvas, fx.tile, fx.mode)]
    /\ UNCHANGED <<sessionVarsNoFx, aw>>

\* _glue_with_feather(canvas, tile, mode, feather_px)
ApplyGlueWithFeather ==
    /\ fx.op = "args"
    /\ OtherLen(fx.canvas, fx.mode) = TILE_PX
    /\ fx' = [fx EXCEPT !.op = "glue_with_feather",
                        !.out = glue_with_feather(fx.canvas, fx.tile, fx.mode,
                                                  fx.feather_px)]
    /\ UNCHANGED <<sessionVarsNoFx, aw>>

\* glue(canvas, new_half, mode) with _, new_half = split_tile(tile, mode), as
\* test_glue_grows_canvas_by_512 calls it.
ApplyGlueNewHalf ==
    /\ fx.op = "args"
    /\ OtherLen(fx.canvas, fx.mode) = TILE_PX
    /\ fx' = [fx EXCEPT !.op = "glue_new_half",
                        !.out = glue(fx.canvas, split_tile(fx.tile, fx.mode)[2], fx.mode)]
    /\ UNCHANGED <<sessionVarsNoFx, aw>>

\* ------------------------------------ geometry, applied to any input
\* Canvases of any size: the growth axis shorter than a band, one band, one
\* tile; the other axis a tile, or one pixel off.
GeomCanvases(mode) ==
    {ImgAlong(mode, g, o, SubSeq(CanvasLabels, 1, Stripes(g))) :
        g \in {BAND_PX - STRIPE_PX, BAND_PX, TILE_PX},
        o \in {TILE_PX - 1, TILE_PX, TILE_PX + 1}}
\* Tiles: a whole tile, one short across the growth axis, and a half tile.
GeomTiles(mode) ==
    {Img(TILE_PX, TILE_PX, TileLabels),
     ImgAlong(mode, TILE_PX, TILE_PX - 1, TileLabels),
     ImgAlong(mode, HALF_PX, TILE_PX, SubSeq(TileLabels, 1, Stripes(HALF_PX)))}

GeomArgs ==
    UNION {{[op |-> "geom_args", mode |-> mode, canvas |-> canvas, tile |-> tile,
             out |-> NoFile] :
               canvas \in GeomCanvases(mode), tile \in GeomTiles(mode)} :
           mode \in Modes}

\* extract_conditioning_band(canvas, mode)
ApplyExtract ==
    /\ fx.op = "geom_args"
    /\ fx' = [fx EXCEPT !.op = "extract_conditioning_band",
                        !.out = extract_conditioning_band(fx.canvas, fx.mode)]
    /\ UNCHANGED <<sessionVarsNoFx, aw>>

\* split_tile(tile, mode)
ApplySplit ==
    /\ fx.op = "geom_args"
    /\ fx' = [fx EXCEPT !.op = "split_tile", !.out = split_tile(fx.tile, fx.mode)]
    /\ UNCHANGED <<sessionVarsNoFx, aw>>

\* glue(canvas, tile, mode), whatever the canvas and the tile
ApplyGlueAny ==
    /\ fx.op = "geom_args"
    /\ fx' = [fx EXCEPT !.op = "glue_any", !.out = glue(fx.canvas, fx.tile, fx.mode)]
    /\ UNCHANGED <<sessionVarsNoFx, aw>>

\* ------------------------------------------------------------ alpha masks
\* int(round(n / d)) for n >= 0 and d > 0; Python's round takes a half to the
\* even integer.
RoundDiv(n, d) ==
    LET q == n \div d
        r == n % d
    IN  IF 2 * r < d THEN q
        ELSE IF 2 * r > d THEN q + 1
        ELSE IF q % 2 = 0 THEN q ELSE q + 1

\* a = int(round(255 * (x / max(1, feather_px - 1))))
ramp_a(x, feather_px) == RoundDiv(255 * x, Max(1, feather_px - 1))

\* ramp_pixels[k]: the list is feather_px runs, each of `run` copies of one a.
ramp_pixels(k, feather_px, run) == ramp_a(k \div run, feather_px)

\* ramp.putdata(ramp_pixels): the list fills the image line by line, so pixel
\* (x, y) of a ramp that is ramp_w wide takes item y * ramp_w + x.
ramp_at(x, y, ramp_w, feather_px, run) ==
    ramp_pixels(y * ramp_w + x, feather_px, run)

\* The mask of _glue_with_feather at pixel (x, y) of the overlap window: 0
\* except where the ramp was pasted.
feather_mask_at(mode, feather_px, x, y) ==
    LET f == Max(1, Min(feather_px, OVERLAP_PX))
        ov_w == IF Horizontal(mode) THEN OVERLAP_PX ELSE TILE_PX
        ov_h == IF Horizontal(mode) THEN TILE_PX ELSE OVERLAP_PX
    IN  IF Horizontal(mode)
        THEN LET x0 == IF mode = "x_ltr" THEN ov_w - f ELSE 0
             IN  IF x >= x0 /\ x < x0 + f
                 THEN ramp_at(x - x0, y, f, f, ov_h) ELSE 0
        ELSE LET y0 == IF mode = "y_ttb" THEN ov_h - f ELSE 0
             IN  IF y >= y0 /\ y < y0 + f
                 THEN ramp_at(x, y - y0, ov_w, f, ov_w) ELSE 0

\* The mask along the growth axis, at transverse coordinate t.
feather_mask_line(mode, feather_px, t) ==
    Seq_([i \in 1..OVERLAP_PX |->
            IF Horizontal(mode) THEN feather_mask_at(mode, feather_px, i - 1, t)
            ELSE feather_mask_at(mode, feather_px, t, i - 1)])

\* build_reference_tile_and_mask with its defaults (no cue, no scaffold): the
\* reference tile, and the alpha of the mask along the growth axis (the
\* rectangle of _set_alpha_rect spans the whole transverse axis).
build_reference_tile_and_mask(band, mode) ==
    IF Size(band) # (IF Horizontal(mode) THEN <<BAND_PX, TILE_PX>>
                     ELSE <<TILE_PX, BAND_PX>>)
    THEN Raised("ValueError")
    ELSE [ref |-> Img(TILE_PX, TILE_PX,
                      Paste(Black(Stripes(TILE_PX)), band.px,
                            IF Forward(mode) THEN 0 ELSE HALF_PX)),
          mask |-> Seq_([i \in 1..TILE_PX |->
                           IF Forward(mode)
                           THEN IF i - 1 >= HALF_PX THEN 0 ELSE 255
                           ELSE IF i - 1 < HALF_PX THEN 0 ELSE 255])]

\* feather_px: the least, small widths, the whole overlap, more than it.
\* (For these widths 255 * (x / (feather_px - 1)) is nowhere near a half, but
\* for width 3, where the half is exact.)
MaskFeathers == {1, 2, 3, 4, OVERLAP_PX, OVERLAP_PX + 1}
\* Transverse coordinates: the first line, one near it, the middle, the last.
MaskTransverse == {0, 3, HALF_PX, TILE_PX - 1}
\* Bands: the band of a one-tile canvas, and an image that is no band.
MaskBands(mode) ==
    {extract_conditioning_band(ImgAlong(mode, TILE_PX, TILE_PX,
                                        SubSeq(CanvasLabels, 1, Stripes(TILE_PX))), mode),
     Img(TILE_PX, TILE_PX, TileLabels)}

MaskArgs ==
    UNION {{[op |-> "mask_args", mode |-> mode, band |-> band,
             feather_px |-> feather_px, t |-> t, out |-> NoFile] :
               band \in MaskBands(mode), feather_px \in MaskFeathers,
               t \in MaskTransverse} :
           mode \in Modes}

\* The mask that _glue_with_feather builds for (mode, feather_px).
BuildFeatherMask ==
    /\ fx.op = "mask_args"
    /\ fx' = [fx EXCEPT !.op = "feather_mask",
                        !.out = feather_mask_line(fx.mode, fx.feather_px, fx.t)]
    /\ UNCHANGED <<sessionVarsNoFx, aw>>

\* build_reference_tile_and_mask(conditioning_band=band, mode=mode)
BuildReferenceMask ==
    /\ fx.op = "mask_args"
    /\ fx' = [fx EXCEPT !.op = "reference_mask",
                        !.out = build_reference_tile_and_mask(fx.band, fx.mode)]
    /\ UNCHANGED <<sessionVarsNoFx, aw>>

Init ==
    /\ pc = "start"
    /\ canvasFile = NoFile
    /\ stateFile = NoFile
    /\ stepDirs = {}
    /\ stepFiles = [N \in StepIdx |-> {}]
    /\ sess = NoSession
    /\ loc = NoLocals
    /\ cand = NoCand
    /\ todo = <<>>
    /\ result = NoResult
    /\ mem = NoSession
    /\ hist = [attempts |-> 0, committed |-> 0, reopened |-> FALSE]
    /\ aw = NoWrite
    /\ h2 = NoHandle
    /\ fx = NoFx

Next ==
    \/ \E mode \in Modes, img \in InitImages : Create(mode, img)
    \/ ExecuteStepReal
    \/ ExecuteStepMock
    \/ DurableWrite
    \/ WriteFails
    \/ Crash
    \/ Open
    \/ \E mode \in Modes : \E canvas \in MemCanvases(mode) : MemStart(mode, canvas)
    \/ InMemoryStepAny

Spec == Init /\ [][Next]_vars

\* The session without faults: no write fails and the process is not killed.
NextClean ==
    \/ \E mode \in Modes, img \in InitImages : Create(mode, img)
    \/ ExecuteStepReal
    \/ ExecuteStepMock
    \/ DurableWrite
    \/ Open

SpecClean == Init /\ [][NextClean]_vars

\* Steps with a generator that fails on every call, on disk and in memory.
NextGenFails ==
    \/ \E mode \in Modes, img \in InitImages : Create(mode, img)
    \/ ExecuteStepFailing
    \/ DurableWrite
    \/ Open
    \/ \E mode \in Modes : \E canvas \in MemCanvases(mode) : MemStart(mode, canvas)
    \/ InMemoryStepFailing

SpecGenFails == Init /\ [][NextGenFails]_vars

\* Two handles on one session root, stepping without faults.
NextTwo ==
    \/ \E mode \in Modes, img \in InitImages : Create(mode, img)
    \/ ExecuteStepMock
    \/ DurableWrite
    \/ OpenOther
    \/ Switch

SpecTwo == Init /\ [][NextTwo]_vars

\* Two handles on one session root whose calls never overlap: a handle is
\* used only while no call is running on the other.
NextHandles ==
    \/ \E mode \in Modes, img \in InitImages : Create(mode, img)
    \/ ExecuteStepMock
    \/ DurableWrite
    \/ OpenOther
    \/ SwitchIdle

SpecHandles == Init /\ [][NextHandles]_vars

\* glue and _glue_with_feather applied to canvases, tiles and feather widths.
InitGlue ==
    /\ Init!1 /\ Init!2 /\ Init!3 /\ Init!4 /\ Init!5 /\ Init!6 /\ Init!7
    /\ Init!8 /\ Init!9 /\ Init!10 /\ Init!11 /\ Init!12 /\ Init!13 /\ Init!14
    /\ fx \in GlueArgs

NextGlue ==
    \/ ApplyGlue
    \/ ApplyGlueWithFeather
    \/ ApplyGlueNewHalf

SpecGlue == InitGlue /\ [][NextGlue]_vars

\* generate_tile(conditioning_band=band, mode=mode, ...) of the mock client,
\* on a band of the size it accepts.
ApplyGenerateTile ==
    /\ fx.op = "mask_args"
    /\ Size(fx.band) = (IF Horizontal(fx.mode) THEN <<BAND_PX, TILE_PX>>
                        ELSE <<TILE_PX, BAND_PX>>)
    /\ fx' = [fx EXCEPT !.op = "generate_tile", !.out = generate_tile(fx.band, fx.mode)]
    /\ UNCHANGED <<sessionVarsNoFx, aw>>

\* The masks of _glue_with_feather and of build_reference_tile_and_mask.
InitMask ==
    /\ Init!1 /\ Init!2 /\ Init!3 /\ Init!4 /\ Init!5 /\ Init!6 /\ Init!7
    /\ Init!8 /\ Init!9 /\ Init!10 /\ Init!11 /\ Init!12 /\ Init!13 /\ Init!14
    /\ fx \in MaskArgs

NextMask ==
    \/ BuildFeatherMask
    \/ BuildReferenceMask
    \/ ApplyGenerateTile

SpecMask == InitMask /\ [][NextMask]_vars

\* The session with handles opened on any path; writes may fail and the
\* process may die.
NextOpen ==
    \/ \E mode \in Modes, img \in InitImages : Create(mode, img)
    \/ ExecuteStepMock
    \/ DurableWrite
    \/ WriteFails
    \/ Crash
    \/ OpenAny

SpecOpen == Init /\ [][NextOpen]_vars

\* extract_conditioning_band, split_tile and glue on inputs of any size.
InitGeom ==
    /\ Init!1 /\ Init!2 /\ Init!3 /\ Init!4 /\ Init!5 /\ Init!6 /\ Init!7
    /\ Init!8 /\ Init!9 /\ Init!10 /\ Init!11 /\ Init!12 /\ Init!13 /\ Init!14
    /\ fx \in GeomArgs

NextGeom ==
    \/ ApplyExtract
    \/ ApplySplit
    \/ ApplyGlueAny

SpecGeom == InitGeom /\ [][NextGeom]_vars

\* Atomic writes to one destination, whatever it held before.
InitAW ==
    /\ Init!1 /\ Init!2 /\ Init!3 /\ Init!4 /\ Init!5 /\ Init!6
    /\ Init!7 /\ Init!8 /\ Init!9 /\ Init!10 /\ Init!11 /\ Init!12
    /\ Init!14 /\ Init!15
    /\ aw \in {AwState("ready", "none", d, Absent, d, <<>>, FALSE) : d \in DstFiles}

NextAW ==
    \/ \E fn \in {"bytes", "with"}, data \in Contents : AwBegin(fn, data)
    \/ AwWrite
    \/ AwFsync
    \/ AwReplace
    \/ AwReturn
    \/ AwRaise
    \/ AwCrash

SpecAW == InitAW /\ [][NextAW]_vars

\* ------------------------------------------------------------ properties

\* C1: after a crash inside a step the persisted canvas and the persisted
\* metadata agree: the canvas's growth-axis length is TILE_PX + ADVANCE_PX *
\* (persisted step index).  The code writes the canvas pointer before the
\* metadata, so a crash between the two breaks this.
C1_CrashLeavesCanvasAndMetadataAgreeing ==
    pc = "crashed" /\ canvasFile # NoFile /\ stateFile # NoFile
    => GrowthLen(canvasFile, stateFile.mode)
       = TILE_PX + ADVANCE_PX * stateFile.step_index_current

\* C2: a step whose candidates are all unusable (every score minus infinity)
\* never goes on to glue and write, and the tile that is glued never has a
\* score of minus infinity.  The code takes candidate 0 when all scores are
\* minus infinity.
C2_GluedTileIsUsable ==
    pc = "writing" /\ cand # NoCand => cand.scores[cand.best_i].fin

\* C3: with a generator that fails on every call no step call commits, and the
\* session's step index and canvas stay what create left.
C3_FailingGeneratorNeverCommits ==
    /\ hist.committed = 0
    /\ result.status # "committed"
    /\ pc \in {"idle", "writing"}
       => /\ sess.step_index_current = 0
          /\ canvasFile = Img(TILE_PX, TILE_PX, Labels)
          /\ stateFile # NoFile => stateFile.step_index_current = 0

\* C4: a step call that returns rejected leaves the canvas, the persisted
\* metadata and the step index as they were before the call, and reports the
\* same canvas size before and after.
C4_RejectedLeavesStateUnchanged ==
    [][result'.status = "rejected"
       => /\ canvasFile' = canvasFile
          /\ stateFile' = stateFile
          /\ sess' = sess
          /\ pc = "mem" => mem'.canvas = mem.canvas
          /\ result'.canvas_after_size = result'.canvas_before_size
          /\ result'.canvas_before_size
             = Size(IF pc = "mem" THEN mem.canvas ELSE canvasFile)]_vars

C4_Witness ==
    /\ pc = "mem"
    /\ result.status = "rejected"
    /\ result.rejection_reason.code = "band_identity_violation"
    /\ mem.canvas = loc.canvas

\* C5: whenever the commit marker of step N >= 1 exists, the artifacts of step
\* N (prompt, band, candidates, scores, canvas before and after), the replaced
\* canvas pointer and the metadata with step index >= N are already on disk.
StepArtifacts ==
    {File("prompt.txt"), File("conditioning_band.png"), File("canvas_before.png"),
     File("canvas_after.png")}

C5_MarkerIsLastWrite ==
    \A N \in 1..MaxSteps :
        Committed(N)
        => /\ StepArtifacts \subseteq stepFiles[N]
           /\ \E n \in 1..Max(1, MaxCandidates) :
                 /\ <<"candidate_scores.json", n>> \in stepFiles[N]
                 /\ \A i \in 0..(n - 1) : <<"candidates/tile_full.png", i>> \in stepFiles[N]
           /\ canvasFile # NoFile
           /\ stateFile # NoFile
           /\ stateFile.step_index_current >= N
           /\ GrowthLen(canvasFile, stateFile.mode) >= TILE_PX + N * ADVANCE_PX

C5_Witness == pc = "idle" /\ Committed(1) /\ result.status = "committed"

\* C6: at every quiescent point every step index from 0 to the persisted
\* current step index has a commit marker in its directory.  The code writes
\* the metadata before the marker and open checks no marker.
C6_PersistedIndexHasMarker ==
    pc = "idle" /\ stateFile # NoFile
    => \A i \in 0..stateFile.step_index_current : Committed(i)

\* C7: at every point of an atomic write, a kill included, the destination
\* holds its complete previous content or the complete new content: the
\* previous one until the rename, the new one from the rename on.
C7_DestinationNeverTorn ==
    aw.pc # "idle"
    => /\ aw.dst \in {aw.old, FileOf(aw.data)}
       /\ ~aw.renamed => aw.dst = aw.old
       /\ aw.renamed => aw.dst = FileOf(aw.data)

C7_Witness ==
    /\ aw.pc = "crashed"
    /\ ~aw.renamed
    /\ aw.tmp = FileOf(aw.data)
    /\ aw.old.exists
    /\ aw.old.data # aw.data
    /\ aw.dst = aw.old

\* C8: the non-growth axis of the session's canvas is TILE_PX in every
\* reachable state, in all four modes.
C8_NonGrowthAxisIsTile ==
    canvasFile # NoFile
    => \A mode \in (IF stateFile # NoFile THEN {stateFile.mode}
                    ELSE IF sess # NoSession THEN {sess.mode} ELSE Modes) :
          OtherLen(canvasFile, mode) = TILE_PX

C8_Witness ==
    /\ pc = "idle"
    /\ stateFile # NoFile
    /\ stateFile.mode = "y_btt"
    /\ stateFile.step_index_current = 1
    /\ Size(canvasFile) = <<TILE_PX, TILE_PX + ADVANCE_PX>>

\* C9: after a committed step the canvas is ADVANCE_PX longer along the growth
\* axis than before the step, the other axis is the same, and the result's
\* before and after sizes are those of the canvas before and of the canvas now.
C9_CommittedGrowsByAdvance ==
    result.status = "committed"
    => LET mode == IF pc = "mem" THEN mem.mode ELSE sess.mode
           now == IF pc = "mem" THEN mem.canvas ELSE canvasFile
       IN  /\ GrowthLen(now, mode) = GrowthLen(loc.canvas, mode) + ADVANCE_PX
           /\ OtherLen(now, mode) = OtherLen(loc.canvas, mode)
           /\ result.canvas_before_size = Size(loc.canvas)
           /\ result.canvas_after_size = Size(now)

C9_Witness ==
    /\ pc = "idle"
    /\ result.status = "committed"
    /\ sess.mode = "x_rtl"
    /\ hist.committed = 2
    /\ canvasFile.w = TILE_PX + 2 * ADVANCE_PX

\* C10: without faults, after create and k committed steps, reopened or not
\* between them, the canvas's growth axis is TILE_PX + k * ADVANCE_PX, the
\* persisted step index is k, and the step directories 0..k all exist and
\* hold a commit marker.
C10_ReopenAndContinue ==
    pc = "idle"
    => /\ stateFile.step_index_current = hist.committed
       /\ GrowthLen(canvasFile, stateFile.mode) = TILE_PX + hist.committed * ADVANCE_PX
       /\ \A i \in 0..hist.committed : i \in stepDirs /\ Committed(i)

C10_Witness ==
    /\ pc = "idle"
    /\ hist.reopened
    /\ hist.committed = 2
    /\ result.status = "committed"
    /\ stateFile.step_index_current = 2

\* C11: at most one step is in flight per session: no handle on the session
\* root begins a step (reads the canvas pointer) while another handle's step is
\* between its canvas read and its commit.  The code takes no lock.
C11_OneStepInFlight ==
    ~(pc = "writing" /\ h2.pc = "writing")

\* C12: a step whose generator returns a tile that is not TILE_PX x TILE_PX
\* ends as a rejected result, not as a raised exception.  In the disk session
\* the wrong-size tile, when it is the one selected, reaches glue, which raises.
C12_WrongSizeTileIsRejected ==
    cand # NoCand /\ Size(cand.tile_best) # <<TILE_PX, TILE_PX>>
    => result.status = "rejected"

\* C13: a step call of the disk session raises to its caller only for
\* storage-layer failures, and a rejected result carries a rejection reason.
\* The code lets glue's ValueError for a wrong-size tile escape, and
\* DiskStepResult has no reason field.
StorageErrors == {"OSError", "FileNotFoundError"}

C13_OnlyStorageErrorsRaise ==
    /\ pc = "idle" /\ result.status = "raised" => result.error \in StorageErrors
    /\ pc = "idle" /\ result.status = "rejected"
       => "rejection_reason" \in DOMAIN result

\* C14: the selected candidate has the maximum score, and among candidates of
\* the maximum score it is the one of lowest index.
C14_SelectsFirstMaximum ==
    cand # NoCand
    => /\ cand.best_i \in 1..cand.n
       /\ \A j \in 1..cand.n : ~ScoreGT(cand.scores[j], cand.scores[cand.best_i])
       /\ \A j \in 1..(cand.best_i - 1) : ScoreGT(cand.scores[cand.best_i], cand.scores[j])

C14_Witness ==
    /\ pc = "writing"
    /\ cand # NoCand
    /\ cand.n = 2
    /\ cand.scores[1].fin
    /\ cand.scores[1] = cand.scores[2]
    /\ cand.best_i = 1

\* C15: in a committed step with enforce_band_identity on, the conditioning
\* half of the glued tile equals the band of the pre-step canvas over the whole
\* half.  The in-memory step compares the keep region only; the disk session
\* glues candidate 0 when every candidate fails the comparison.
C15_GluedConditioningHalfIsBand ==
    /\ pc = "writing" /\ cand # NoCand /\ cand.enforce
       => split_tile(cand.tile_best, sess.mode)[1].px
          = extract_conditioning_band(loc.canvas, sess.mode).px
    /\ pc = "mem" /\ result.status = "committed" /\ mem.enforce
       => split_tile(mem.tile, mem.mode)[1].px
          = extract_conditioning_band(loc.canvas, mem.mode).px

\* C16: glue, with or without feathering, leaves the old canvas outside its
\* overlap strip unchanged in the new canvas: at the same position in the
\* forward modes, shifted by ADVANCE_PX in the reverse modes.
C16_OldContentOutsideOverlapKept ==
    fx.op \in {"glue", "glue_with_feather"}
    => LET g == GrowthLen(fx.canvas, fx.mode)
       IN  IF Forward(fx.mode)
           THEN Crop(fx.out.px, 0, g - OVERLAP_PX) = Crop(fx.canvas.px, 0, g - OVERLAP_PX)
           ELSE Crop(fx.out.px, ADVANCE_PX + OVERLAP_PX, g + ADVANCE_PX)
                = Crop(fx.canvas.px, OVERLAP_PX, g)

C16_Witness ==
    /\ fx.op = "glue_with_feather"
    /\ fx.mode = "y_btt"
    /\ fx.feather_px = OVERLAP_PX
    /\ fx.tile.px = TileLabels
    /\ GrowthLen(fx.canvas, fx.mode) = TILE_PX + ADVANCE_PX
    /\ Crop(fx.out.px, ADVANCE_PX, ADVANCE_PX + OVERLAP_PX)
       # Crop(fx.canvas.px, 0, OVERLAP_PX)

\* C17: what glue writes over the old canvas's overlap strip is the
\* OVERLAP_PX strip of the tile's conditioning half next to the seam, and the
\* ADVANCE_PX pixels beyond the old frontier are the tile's new half; the
\* reverse modes mirror the forward ones.  The code crops the same patch,
\* tile[HALF_PX - OVERLAP_PX, TILE_PX), in every mode.
C17_PatchIsSeamStripAndNewHalf ==
    fx.op = "glue"
    => LET g == GrowthLen(fx.canvas, fx.mode)
           new_half == split_tile(fx.tile, fx.mode)[2]
       IN  IF Forward(fx.mode)
           THEN /\ Crop(fx.out.px, g - OVERLAP_PX, g)
                   = Crop(fx.tile.px, HALF_PX - OVERLAP_PX, HALF_PX)
                /\ Crop(fx.out.px, g, g + ADVANCE_PX) = new_half.px
           ELSE /\ Crop(fx.out.px, ADVANCE_PX, ADVANCE_PX + OVERLAP_PX)
                   = Crop(fx.tile.px, HALF_PX, HALF_PX + OVERLAP_PX)
                /\ Crop(fx.out.px, 0, ADVANCE_PX) = new_half.px

\* C18: for feather_px <= 0 _glue_with_feather gives what glue gives; for
\* feather_px > 0 the two canvases differ only inside the overlap strip of the
\* old content.  In the reverse modes the blended strip lands in the newly
\* appended region.
C18_FeatherStaysInOverlap ==
    fx.op = "glue_with_feather"
    => LET g == GrowthLen(fx.canvas, fx.mode)
           hard == glue(fx.canvas, fx.tile, fx.mode)
       IN  IF fx.feather_px <= 0 THEN fx.out = hard
           ELSE IF Forward(fx.mode)
           THEN /\ Crop(fx.out.px, 0, g - OVERLAP_PX) = Crop(hard.px, 0, g - OVERLAP_PX)
                /\ Crop(fx.out.px, g, g + ADVANCE_PX) = Crop(hard.px, g, g + ADVANCE_PX)
           ELSE /\ Crop(fx.out.px, 0, ADVANCE_PX) = Crop(hard.px, 0, ADVANCE_PX)
                /\ Crop(fx.out.px, ADVANCE_PX + OVERLAP_PX, g + ADVANCE_PX)
                   = Crop(hard.px, ADVANCE_PX + OVERLAP_PX, g + ADVANCE_PX)

\* C19: for feather_px > 0 the effective width f is feather_px clamped to
\* [1, OVERLAP_PX]; along the seam normal the alpha is 255 at the pixel that
\* touches the seam, falls linearly to 0 at the end of the ramp, f - 1 pixels
\* from the seam, and is 0 beyond it; in every mode, and for f = 1.
C19_RampIs255AtSeam ==
    fx.op = "feather_mask"
    => LET f == Max(1, Min(fx.feather_px, OVERLAP_PX))
           at(d) == IF Forward(fx.mode) THEN fx.out[OVERLAP_PX - d] ELSE fx.out[d + 1]
       IN  /\ at(0) = 255
           /\ f > 1 => /\ at(f - 1) = 0
                       /\ \A d \in 0..(f - 1) : at(d) = RoundDiv(255 * (f - 1 - d), f - 1)
           /\ \A d \in f..(OVERLAP_PX - 1) : at(d) = 0

\* C20: in the mask of build_reference_tile_and_mask a pixel is must-preserve
\* (alpha 255) exactly when it lies in the keep region of the conditioning
\* half, the HALF_PX - OVERLAP_PX pixels farthest from the seam.
C20_OnlyKeepRegionIsPreserved ==
    fx.op = "reference_mask" /\ ~IsRaised(fx.out)
    => \A p \in 0..(TILE_PX - 1) :
          fx.out.mask[p + 1] = 255
          <=> IF Forward(fx.mode) THEN p < HALF_PX - OVERLAP_PX
              ELSE p >= HALF_PX + OVERLAP_PX

\* C21: once create has returned, and before any step call, the root holds
\* the initial canvas as the authoritative canvas, metadata with step index 0,
\* and steps/0000 with the snapshot and the commit marker, and no generator
\* has been called; the first step call uses index 1; a create that refuses
\* the size of the initial canvas leaves no canvas, metadata or marker.
C21_CreateWritesStepZero ==
    /\ (pc = "idle" /\ hist.attempts = 0)
       => /\ canvasFile = Img(TILE_PX, TILE_PX, Labels)
          /\ stateFile # NoFile
          /\ stateFile.step_index_current = 0
          /\ sess.step_index_current = 0
          /\ 0 \in stepDirs
          /\ {File("canvas_initial.png"), Marker} \subseteq stepFiles[0]
          /\ cand = NoCand /\ loc = NoLocals
    /\ (hist.attempts = 1 /\ hist.committed = 0 /\ loc # NoLocals)
       => loc.step_index_next = 1
    /\ (pc = "failed" /\ result = RaisedResult("ValueError"))
       => /\ canvasFile = NoFile
          /\ stateFile = NoFile
          /\ \A N \in StepIdx : ~Committed(N)

C21_Witness ==
    /\ pc = "writing"
    /\ hist.attempts = 1
    /\ loc.step_index_next = 1
    /\ stateFile.step_index_current = 0
    /\ Committed(0)
    /\ cand # NoCand

\* C22: open(session_root) raises FileNotFoundError when the path holds no
\* session metadata and ValueError when the root stored in the metadata is
\* not the given path; otherwise the handle's mode, step index and expected
\* canvas size are the persisted ones; no persisted file changes in any case.
C22_OpenChecksRootAndLoads ==
    [][\A session_root \in OpenPaths :
         OpenAt(session_root)
         => /\ UNCHANGED diskVars
            /\ IF StateFileAt(session_root) = NoFile
               THEN result' = RaisedResult("FileNotFoundError") /\ sess' = sess
               ELSE IF StateFileAt(session_root).session_root # session_root
               THEN result' = RaisedResult("ValueError") /\ sess' = sess
               ELSE /\ result' = NoResult
                    /\ sess'.mode = stateFile.mode
                    /\ sess'.step_index_current = stateFile.step_index_current
                    /\ sess'.canvas_width_px_expected = stateFile.canvas_width_px_expected
                    /\ sess'.canvas_height_px_expected = stateFile.canvas_height_px_expected]_vars

C22_Witness ==
    /\ pc = "idle"
    /\ result = RaisedResult("ValueError")
    /\ stateFile # NoFile
    /\ stateFile.step_index_current = 1
    /\ sess.step_index_current = 1
    /\ loc = NoLocals

\* C23: in the persisted metadata advance_px and ext_px are equal, and equal
\* to the pixels a committed step adds to the canvas (ADVANCE_PX); after
\* create and after every committed step the recorded expected size is the
\* size of the authoritative canvas.
C23_MetadataRecordsTheAdvance ==
    stateFile # NoFile
    => /\ stateFile.advance_px = stateFile.ext_px
       /\ stateFile.advance_px = ADVANCE_PX
       /\ (pc = "idle" /\ (hist.attempts = 0 \/ result.status = "committed"))
          => <<stateFile.canvas_width_px_expected, stateFile.canvas_height_px_expected>>
             = Size(canvasFile)

\* C24: gluing the new half that split_tile returns for a tile onto a canvas
\* succeeds, and the result has the size expected_next_canvas_size gives: the
\* growth axis longer by EXT_PX, the other axis unchanged.
C24_GlueOfNewHalfGrowsCanvas ==
    fx.op = "glue_new_half"
    => /\ ~IsRaised(fx.out)
       /\ Size(fx.out) = expected_next_canvas_size(fx.canvas, fx.mode)
       /\ GrowthLen(fx.out, fx.mode) = GrowthLen(fx.canvas, fx.mode) + EXT_PX
       /\ OtherLen(fx.out, fx.mode) = OtherLen(fx.canvas, fx.mode)

C26_BandPlacementConvention ==
    /\ fx.op = "generate_tile"
       => /\ split_tile(fx.out, fx.mode)[1] = fx.band
          /\ GrowthLen(split_tile(fx.out, fx.mode)[2], fx.mode) = EXT_PX
          /\ OtherLen(split_tile(fx.out, fx.mode)[2], fx.mode) = TILE_PX
    /\ (fx.op = "reference_mask" /\ ~IsRaised(fx.out))
       => split_tile(fx.out.ref, fx.mode)[1] = fx.band

C26_Witness ==
    /\ fx.op = "generate_tile"
    /\ fx.mode = "y_btt"
    /\ fx.band.px = <<"c1", "c2">>
    /\ fx.out.px = <<"new1", "new2", "c1", "c2">>

\* C27: with step calls that never overlap, made through the handle of create
\* and a handle opened later, in any order: between calls the persisted step
\* index is the number of committed steps and the canvas's growth axis is
\* TILE_PX + ADVANCE_PX * that number, and a running step never writes into a
\* step directory that already holds a commit marker.
C27_HandlesAgreeOnStepIndex ==
    /\ (pc = "idle" /\ stateFile # NoFile)
       => /\ stateFile.step_index_current = hist.committed
          /\ GrowthLen(canvasFile, stateFile.mode)
             = TILE_PX + ADVANCE_PX * stateFile.step_index_current
    /\ pc = "writing" => ~Committed(loc.step_index_next)

\* C28: a step directory that carries a commit marker holds only files of the
\* attempt that committed it: its candidate tiles are exactly the ones its
\* score report counts, and a step committed by execute_step_mock holds no
\* cond_half.png, whatever an abandoned earlier attempt at the index wrote.
C28_CommittedDirHoldsOneAttempt ==
    /\ \A N \in 1..MaxSteps :
          Committed(N)
          => \A n \in 1..Max(1, MaxCandidates) :
                <<"candidate_scores.json", n>> \in stepFiles[N]
                => {f \in stepFiles[N] : f[1] = "candidates/tile_full.png"}
                   = {<<"candidates/tile_full.png", i>> : i \in 0..(n - 1)}
    /\ (pc = "idle" /\ result.status = "committed" /\ loc.fn = "mock")
       => File("cond_half.png") \notin stepFiles[loc.step_index_next]

\* C29: when a durable write fails inside a step call and the call raises,
\* the handle's step index and expected canvas size are the persisted ones,
\* and the canvas pointer and the metadata are as before the call, so that a
\* retry on the handle uses the same step index.
C29_FailedWriteLeavesHandleAndFilesInStep ==
    (pc = "idle" /\ result = RaisedResult("OSError") /\ loc # NoLocals)
    => /\ sess.step_index_current = stateFile.step_index_current
       /\ sess.canvas_width_px_expected = stateFile.canvas_width_px_expected
       /\ sess.canvas_height_px_expected = stateFile.canvas_height_px_expected
       /\ canvasFile = loc.canvas
       /\ stateFile.step_index_current = loc.step_index_next - 1
       /\ sess.step_index_current + 1 = loc.step_index_next

\* C30: once an atomic write has returned or raised, its temp file is gone:
\* after a return the destination holds the new content, and after a failure
\* of the write, the sync or the rename the temp file has been removed and
\* the destination is as it was.
C30_NoTempFileIsLeft ==
    /\ aw.pc = "done" => ~aw.tmp.exists /\ aw.dst = FileOf(aw.data)
    /\ aw.pc = "raised" => ~aw.tmp.exists /\ aw.dst = aw.old

====
